---- MODULE Spec2Model ----
(***************************************************************************)
(* createJabtermServer (src/server/jabtermServer.ts): the upgrade router,  *)
(* the per-connection session (one WebSocket paired with one pty) and the  *)
(* listen / address / close lifecycle, as a state machine.  Every action   *)
(* is one callback of the Node event loop, run to completion.              *)
(***************************************************************************)
EXTENDS Integers, Sequences, FiniteSets, TLC

\* ------------------------------------------------------------------ bounds
MaxConns == 1          \* upgrade requests followed by Spec
MaxMsgs == 1           \* inbound frames under Spec, over all connections
MaxFrameMsgs == 2      \* inbound frames under SpecFrames
MaxData == 1           \* output chunks, over all connections
MaxCloseCalls == 2     \* calls of close()
MaxConnectingFrames == 101  \* frames a browser sends while the upstream connects
MaxDirectFrames == 2   \* frames a browser sends after the upstream left CONNECTING
MaxUpstreamMsgs == 1   \* frames the upstream sends on a proxy connection
CodeSpan == 12         \* close codes tried on each side of a boundary
MaxListenCalls == 3    \* calls of listen() followed by SpecLifecycle
MaxSessionMsgs == 2    \* inbound frames under SpecSession
MaxSessionData == 2    \* output chunks under SpecSession
MaxSpawnConns == 2     \* connections followed by SpecSpawn

Conns == 1..MaxConns
SpawnConns == 1..MaxSpawnConns

\* ------------------------------------------------------- program constants
JABTERM_PROTOCOL_VERSION == 1
MinDim == 10
DefaultCols == 80
DefaultRows == 24
DefaultPort == 3223

\* The result of Number(x) that is not a number (NaN), and the undefined that
\* session.helloVersion holds for it.
NaN == -999

\* ---------------------------------------------------------- inbound frames
\* The payloads a client sends.  A frame is a payload with the binary flag
\* of the WebSocket frame that carried it.
HelloBodies == {"{type:hello,version:1}", "{type:hello,version:2}", "{type:hello}",
                "{type:hello,version:'1'}"}
ResizeBodies == {"{type:resize,cols:1,rows:1}", "{type:resize,cols:0,rows:-5}",
                 "{type:resize,cols:120,rows:'x'}"}
OtherBraceBodies == {"{not json", "{type:other}"}
PlainBodies == {"ls", " {type:resize,cols:1,rows:1}"}
Bodies == HelloBodies \cup ResizeBodies \cup OtherBraceBodies \cup PlainBodies

TextFrames == [bin : {FALSE}, body : Bodies]
BinaryFrames == [bin : {TRUE},
                 body : {"ls", "{type:hello,version:2}", "{type:resize,cols:1,rows:1}"}]
Frames == TextFrames \cup BinaryFrames

\* msgStr.trimStart().startsWith("{"): leading white space skipped
StartsWithBraceAfterTrim(body) ==
  body \in HelloBodies \cup ResizeBodies \cup OtherBraceBodies \cup {" {type:resize,cols:1,rows:1}"}

\* msgStr.startsWith("{")
StartsWithBrace(body) == body \in HelloBodies \cup ResizeBodies \cup OtherBraceBodies

\* The value of a field of a parsed object: a JSON number, a JSON string, or
\* undefined for a field the object does not have.
JsNumber(n) == [t |-> "number", n |-> n]
JsString(s) == [t |-> "string", s |-> s]
JsUndefined == [t |-> "undefined"]

\* JSON.parse(msgStr): ok = FALSE when it throws, otherwise the fields read
\* from the parsed object.
NoObject == [ok |-> FALSE, type |-> "", version |-> JsUndefined,
             cols |-> JsUndefined, rows |-> JsUndefined]

JSONparse(body) ==
  CASE body = "{type:hello,version:1}" ->
         [NoObject EXCEPT !.ok = TRUE, !.type = "hello", !.version = JsNumber(1)]
    [] body = "{type:hello,version:2}" ->
         [NoObject EXCEPT !.ok = TRUE, !.type = "hello", !.version = JsNumber(2)]
    [] body = "{type:hello,version:'1'}" ->
         [NoObject EXCEPT !.ok = TRUE, !.type = "hello", !.version = JsString("1")]
    [] body = "{type:hello}" -> [NoObject EXCEPT !.ok = TRUE, !.type = "hello"]
    [] body \in {"{type:resize,cols:1,rows:1}", " {type:resize,cols:1,rows:1}"} ->
         [NoObject EXCEPT !.ok = TRUE, !.type = "resize",
                          !.cols = JsNumber(1), !.rows = JsNumber(1)]
    [] body = "{type:resize,cols:0,rows:-5}" ->
         [NoObject EXCEPT !.ok = TRUE, !.type = "resize",
                          !.cols = JsNumber(0), !.rows = JsNumber(-5)]
    [] body = "{type:resize,cols:120,rows:'x'}" ->
         [NoObject EXCEPT !.ok = TRUE, !.type = "resize",
                          !.cols = JsNumber(120), !.rows = JsString("x")]
    [] body = "{type:other}" -> [NoObject EXCEPT !.ok = TRUE, !.type = "other"]
    [] OTHER -> NoObject

\* A JSON or JavaScript number with a fractional part: n + 1/2
JsFraction(n) == [t |-> "fraction", n |-> n]

\* Number(value): a number is itself, a string is the number it spells or NaN,
\* undefined is NaN
Number(value) ==
  CASE value.t = "number" -> value.n
    [] value.t = "string" -> (IF value.s = "1" THEN 1
                              ELSE IF value.s = "1001" THEN 1001 ELSE NaN)
    [] OTHER -> NaN

Max(a, b) == IF a >= b THEN a ELSE b

\* Number(v) || dflt : NaN and 0 are falsy
NumberOr(v, dflt) == IF Number(v) = NaN \/ Number(v) = 0 THEN dflt ELSE Number(v)

\* Number(v) || dflt, the floor left out
ClampDimNoFloor(v, dflt) == NumberOr(v, dflt)

\* Math.max(Number(v) || dflt, 10)
ClampDim(v, dflt) == Max(NumberOr(v, dflt), MinDim)

\* const version = Number(control.version);
\* Number.isFinite(version) ? version : undefined
HelloVersionOf(value) == LET version == Number(value) IN
                         IF version # NaN THEN version ELSE NaN

\* Classify with the version of a hello frame never compared
ClassifyAnyHello(frame) ==
  IF ~StartsWithBrace(frame.body) THEN "input"
  ELSE LET control == JSONparse(frame.body) IN
       IF ~control.ok THEN "input"
       ELSE IF control.type = "hello" THEN "hello"
       ELSE IF control.type = "resize" THEN "resize"
       ELSE "input"

\* The branch onWsMessage takes for a payload once past its two guards.
\* message.toString() is applied to text and binary frames alike.
Classify(frame) ==
  IF ~StartsWithBrace(frame.body) THEN "input"
  ELSE LET control == JSONparse(frame.body) IN
       IF ~control.ok THEN "input"
       ELSE IF control.type = "hello" THEN
              IF HelloVersionOf(control.version) # JABTERM_PROTOCOL_VERSION
                THEN "mismatch" ELSE "hello"
       ELSE IF control.type = "resize" THEN "resize"
       ELSE "input"

\* ------------------------------------------------------------------- state
\* An Origin header: absent, present and empty, or a non-empty value.
NoOrigin == "undefined"
Origins == {NoOrigin, "", "https://allowed.example", "https://denied.example"}
AllowedOriginsList == {"https://allowed.example"}

\* The option sets a server is created with: the defaults, and a strict port
\* (strictPort with a non-zero port) with an allowedOrigins list.
OptionSets == {[strictPort |-> FALSE, allowedOrigins |-> "none", port |-> DefaultPort],
               [strictPort |-> TRUE, allowedOrigins |-> "list", port |-> DefaultPort]}

\* The option sets of the lifecycle specification: strictPort set or not, with
\* the default port and with port 0 (the operating system picks the port).
LifecycleOptionSets == [strictPort : BOOLEAN, allowedOrigins : {"none"},
                        port : {0, DefaultPort}]

\* ------------------------------------------------ routing and pty options
\* A string the code takes apart is the sequence of its characters.
RootPath == <<"/">>
WsPath == <<"/", "w", "s">>

\* normalizeBasePath(opts.path) of the servers followed
BasePaths == {RootPath, WsPath}

\* What follows the base path in the pathname of a request
Suffixes == { <<>>, <<"/">>, <<"/", "a">>, <<"/", "/", "a">>,
              <<"/", "a", "%", "2", "0", "b">>, <<"/", "a", "/", "b">>,
              <<"/", "a", "%", "2", "F", "b">>, <<"/", "%">>, <<"/", "%", "E", "0">>,
              <<"x">> }

\* url.pathname of the requests sent to a server with the base path base
Pathnames(base) == { base \o s : s \in Suffixes }

\* terminalId: undefined, or a string
NoId == [kind |-> "undefined", s |-> <<>>]
IdOf(s) == [kind |-> "string", s |-> s]

\* The server-wide defaults of the connection handler: opts.shell, opts.cwd,
\* and env, which is process.env, opts.env and the three fixed entries
OptsShell == "optsShell"
DefaultCwd == "optsCwd"
ServerEnv == [TERM |-> "xterm-256color", OPT |-> "server"]

\* What the onCreatePty hook returns: an object holding some of the fields
\* shell, shellArgs, cwd, env, cols, rows.  NoFields is undefined or {}.
NoFields == [f \in {} |-> ""]
FullA == [shell |-> "zsh", shellArgs |-> <<"-l">>, cwd |-> "/tmp",
          env |-> [TERM |-> "dumb", HOOK |-> "A"], cols |-> 100, rows |-> 40]
FullB == [shell |-> "fish", shellArgs |-> <<"-i">>, cwd |-> "/srv",
          env |-> [HOOK |-> "B"], cols |-> 90, rows |-> 30]
Extras == { NoFields, FullA, FullB,
            [shell |-> "zsh"], [shellArgs |-> <<"-l">>], [cwd |-> "/tmp"],
            [env |-> [HOOK |-> "A"]], [cols |-> 5, rows |-> 5], [cols |-> NaN] }

\* pty.spawn has not been called
NoSpawn == [shell |-> "", args |-> <<>>, cwd |-> "", env |-> NoFields, cols |-> 0, rows |-> 0]

VARIABLES
  opts,            \* the options the server was created with
  listenerBound,   \* httpServer has a bound handle (httpServer.address() is not null)
  listened,        \* let listened
  closing,         \* let closing
  closePromise,    \* let closePromise: 0 is null, otherwise the promise object
  promises,        \* promise objects allocated by close() so far
  closeReturned,   \* the promise object each close() call returned, in call order
  closeStage,      \* where the shutdown started by the first close() stands
  closeSnapshot,   \* the sessions that were live when close() began
  wssState,        \* the WebSocketServer: RUNNING or CLOSING
  listenPc,        \* where the listen() call in flight stands
  listenResult,    \* how the last finished listen() call ended
  up,              \* per connection: the upgrade request and how far it got
  ws,              \* per connection: the server side WebSocket
  pty,             \* per connection: the spawned process
  session,         \* per connection: the Session object
  sessions,        \* const sessions = new Set<Session>()
  ptys,            \* const ptys = new Set<pty.IPty>()
  msgCount,        \* inbound frames received so far
  dataCount        \* output chunks emitted so far

\* One connection of createTerminalProxy: the browser socket and the upstream
\* socket opened for it.
VARIABLES
  bState,          \* browserSocket.readyState
  uState,          \* upstream.readyState
  pending,         \* const pending: the frames buffered while upstream connects
  received,        \* frames received from the browser so far
  connectingRecv,  \* how many of them arrived while upstream was CONNECTING
  upSent,          \* the frames sent to upstream, in order
  uRecv,           \* frames received from upstream so far
  bSent,           \* the frames sent to the browser, in order
  bCloses,         \* browserSocket.close(code, reason) calls: <<code, reason length>>
  uCloses,         \* upstream.close(code, reason) calls: the codes
  uTerminated,     \* upstream.terminate() was called
  bTerminated,     \* browserSocket.terminate() was called
  uCloseEvent,     \* <<code, reason length>> of the upstream's close event
  sendFailed       \* a send of this connection has thrown

\* A call of the exported normalizeCloseCode
VARIABLES
  normIn,          \* the argument of the last call
  normOut          \* what the call returned

\* Routing and spawn options
VARIABLES
  basePath,        \* const basePath = normalizeBasePath(opts.path)
  conn             \* the upgrade requests handled so far, in order: the terminalId
                   \* of each, what the hook got, and the spawn call

\* History of the lifecycle calls, kept when tracing is set: it records what
\* the program does without being read by it.
VARIABLES
  tracing,         \* whether the history below is kept in this behaviour
  listenCalls,     \* calls of listen() so far
  listenError,     \* the message of the error the last rejected listen() carried
  fired            \* the close callbacks and timers of close() that have fired

proxyVars == <<bState, uState, pending, received, connectingRecv, upSent, uRecv, bSent,
               bCloses, uCloses, uTerminated, bTerminated, uCloseEvent, sendFailed>>

codeVars == <<normIn, normOut>>

serverVars == <<opts, listenerBound, listened, closing, closePromise, promises, closeReturned,
                closeStage, closeSnapshot, wssState, listenPc, listenResult,
                up, ws, pty, session, sessions, ptys, msgCount, dataCount>>

traceVars == <<tracing, listenCalls, listenError, fired>>

spawnVars == <<basePath, conn>>

vars == <<serverVars, proxyVars, codeVars, spawnVars, traceVars>>

lifecycleVars == <<listenerBound, listened, closing, closePromise, promises, closeReturned,
                   closeStage, closeSnapshot, wssState, listenPc, listenResult>>

InitOf(optionSets, trace, basePaths) ==
  /\ opts \in optionSets
  /\ basePath \in basePaths
  /\ conn = <<>>
  /\ tracing = trace
  /\ listenCalls = 0
  /\ listenError = ""
  /\ fired = {}
  /\ listenerBound = FALSE
  /\ listened = FALSE
  /\ closing = FALSE
  /\ closePromise = 0
  /\ promises = 0
  /\ closeReturned = <<>>
  /\ closeStage = "idle"
  /\ closeSnapshot = {}
  /\ wssState = "RUNNING"
  /\ listenPc = "idle"
  /\ listenResult = "none"
  /\ up = [c \in Conns |-> [stage |-> "idle", origin |-> NoOrigin, reply |-> 0,
                            destroyed |-> FALSE]]
  /\ ws = [c \in Conns |-> [readyState |-> "NONE", onMessage |-> FALSE,
                            sent |-> <<>>, closes |-> <<>>, errored |-> FALSE]]
  /\ pty = [c \in Conns |-> [state |-> "none", kills |-> <<>>, written |-> <<>>,
                             resized |-> <<>>]]
  /\ session = [c \in Conns |-> [ptyExited |-> FALSE, wsClosed |-> FALSE,
                                 helloVersion |-> NaN]]
  /\ sessions = {}
  /\ ptys = {}
  /\ msgCount = 0
  /\ dataCount = 0
  /\ bState = "OPEN"
  /\ uState = "CONNECTING"
  /\ pending = <<>>
  /\ received = 0
  /\ connectingRecv = 0
  /\ upSent = <<>>
  /\ uRecv = 0
  /\ bSent = <<>>
  /\ bCloses = <<>>
  /\ uCloses = <<>>
  /\ uTerminated = FALSE
  /\ bTerminated = FALSE
  /\ uCloseEvent = <<>>
  /\ sendFailed = FALSE
  /\ normIn = JsUndefined
  /\ normOut = 0

InitWith(optionSets, trace) == InitOf(optionSets, trace, {RootPath})

Init == InitWith(OptionSets, FALSE)

\* ------------------------------------------------------ socket operations
\* A send that never reaches the socket
SendNothing(w, frame) == w

\* A send that puts the frame in front of the frames sent before
SendInFront(w, frame) ==
  IF w.readyState = "OPEN" THEN [w EXCEPT !.sent = <<frame>> \o @] ELSE w

\* A send without the readyState test
SendAlways(w, frame) == [w EXCEPT !.sent = Append(@, frame)]

\* ws.send(frame) behind the readyState === OPEN test of sendError and onData
SendIfOpen(w, frame) ==
  IF w.readyState = "OPEN" THEN [w EXCEPT !.sent = Append(@, frame)] ELSE w

\* ws.close(code, reason): starts the closing handshake of an open socket
WsClose(w, code) ==
  [w EXCEPT !.closes = Append(@, code),
            !.readyState = IF @ = "OPEN" THEN "CLOSING" ELSE @]

\* ws.terminate(): destroys the connection
WsTerminate(w) ==
  [w EXCEPT !.closes = Append(@, 0),
            !.readyState = IF @ = "CLOSED" THEN @ ELSE "CLOSING"]

Terminated(w) == \E i \in 1..Len(w.closes) : w.closes[i] = 0

\* A kill that is never issued
KillNothing(p, from) == p

\* ptyProcess.kill(), with the place it was called from
Kill(p, from) == [p EXCEPT !.kills = Append(@, from)]

\* ---------------------------------------------------------- upgrade router
\* An origin check that lets every request through
checkOriginAllowsAll(origin) == TRUE

\* checkOrigin(req): origin is the Origin header when it is a string
checkOrigin(origin) ==
  IF opts.allowedOrigins = "none" THEN TRUE
  ELSE IF origin = NoOrigin \/ origin = "" THEN TRUE      \* if (!origin) return true
  ELSE origin \in AllowedOriginsList

\* What the authenticate hook does; a server without a hook is a hook that
\* returns true
AuthOutcomes == {"true", "false", "throws"}

\* authenticate with a throwing hook taken as acceptance
authenticateThrowPasses(outcome) == outcome # "false"

\* authenticate(req): !!result, and false when the hook throws
authenticate(outcome) == outcome = "true"

\* replyHttpError(socket, status, reason): the reply is written and the
\* connection destroyed
Reject(c, status) ==
  up' = [up EXCEPT ![c].stage = "rejected", ![c].reply = status, ![c].origin = NoOrigin,
                   ![c].destroyed = TRUE]

\* handleUpgrade up to its await: the path check and the origin check
HandleUpgrade(c, pathOk, origin) ==
  /\ listenerBound
  /\ up[c].stage = "idle"
  /\ IF c = 1 THEN TRUE ELSE up[c - 1].stage # "idle"
  /\ IF ~pathOk THEN Reject(c, 404)
     ELSE IF ~checkOrigin(origin) THEN
       up' = [up EXCEPT ![c].stage = "rejected", ![c].reply = 403, ![c].origin = origin,
                        ![c].destroyed = TRUE]
     ELSE up' = [up EXCEPT ![c].stage = "authenticating", ![c].origin = origin]
  /\ UNCHANGED <<opts, lifecycleVars, ws, pty, session, sessions, ptys,
                 msgCount, dataCount>>
  /\ UNCHANGED <<proxyVars, codeVars, spawnVars, traceVars>>

\* handleUpgrade after await authenticate(req): reject, or wss.handleUpgrade and
\* the connection handler up to its await spawn().  A WebSocketServer that is
\* closing aborts the handshake with 503.
AuthenticateDone(c, outcome) ==
  /\ up[c].stage = "authenticating"
  /\ IF ~authenticate(outcome) THEN Reject(c, 401) /\ UNCHANGED ws
     ELSE IF wssState # "RUNNING" THEN Reject(c, 503) /\ UNCHANGED ws
     ELSE /\ up' = [up EXCEPT ![c].stage = "spawning", ![c].origin = NoOrigin]
          /\ ws' = [ws EXCEPT ![c].readyState = "OPEN"]
  /\ UNCHANGED <<opts, lifecycleVars, pty, session, sessions, ptys,
                 msgCount, dataCount>>
  /\ UNCHANGED <<proxyVars, codeVars, spawnVars, traceVars>>

\* A spawn that registers the process without registering its session
SpawnDoneProcessOnly(c) ==
  /\ up[c].stage = "spawning"
  /\ up' = [up EXCEPT ![c].stage = "session"]
  /\ pty' = [pty EXCEPT ![c].state = "running"]
  /\ ptys' = ptys \cup {c}
  /\ session' = [session EXCEPT ![c] = [ptyExited |-> FALSE, wsClosed |-> FALSE,
                                        helloVersion |-> NaN]]
  /\ ws' = [ws EXCEPT ![c].onMessage = TRUE]
  /\ UNCHANGED <<opts, lifecycleVars, sessions, msgCount, dataCount>>
  /\ UNCHANGED <<proxyVars, codeVars, spawnVars, traceVars>>

\* ----------------------------------------------------------------- session
\* await spawn() resolved: the process exists, the session is registered and
\* its handlers are wired (onData, ws message, ws close, onExit).
SpawnDone(c) ==
  /\ up[c].stage = "spawning"
  /\ up' = [up EXCEPT ![c].stage = "session"]
  /\ pty' = [pty EXCEPT ![c].state = "running"]
  /\ ptys' = ptys \cup {c}
  /\ sessions' = sessions \cup {c}
  /\ session' = [session EXCEPT ![c] = [ptyExited |-> FALSE, wsClosed |-> FALSE,
                                        helloVersion |-> NaN]]
  /\ ws' = [ws EXCEPT ![c].onMessage = TRUE]
  /\ UNCHANGED <<opts, lifecycleVars, msgCount, dataCount>>
  /\ UNCHANGED <<proxyVars, codeVars, spawnVars, traceVars>>

\* await spawn() rejected (the onCreatePty hook or pty.spawn threw)
SpawnFail(c) ==
  /\ up[c].stage = "spawning"
  /\ up' = [up EXCEPT ![c].stage = "spawnFailed"]
  /\ ws' = [ws EXCEPT ![c] = WsClose(SendIfOpen(@, "error:Failed to spawn PTY"), 1011)]
  /\ UNCHANGED <<opts, lifecycleVars, pty, session, sessions, ptys,
                 msgCount, dataCount>>
  /\ UNCHANGED <<proxyVars, codeVars, spawnVars, traceVars>>

\* The n-th output chunk a process emits, as a string of its own
Chunk(n) == "data:" \o ToString(n)

\* ptyProcess.onData(data): one output chunk
PtyData(c, chunk, maxData) ==
  /\ pty[c].state = "running"
  /\ dataCount < maxData
  /\ dataCount' = dataCount + 1
  /\ ws' = [ws EXCEPT ![c] = SendIfOpen(@, chunk)]
  /\ UNCHANGED <<opts, lifecycleVars, up, pty, session, sessions, ptys, msgCount>>
  /\ UNCHANGED <<proxyVars, codeVars, spawnVars, traceVars>>

\* A failed resize that also ends the session's socket
ResizeFailedCloses(w) == WsClose(SendIfOpen(w, "error:Resize failed"), 1011)

\* catch (resizeErr): sendError("Resize failed")
ResizeFailed(w) == SendIfOpen(w, "error:Resize failed")

\* The branch of onWsMessage a frame takes, guards included.
Branch(c, frame) ==
  IF session[c].wsClosed THEN "wsClosed"
  ELSE IF session[c].ptyExited THEN "ptyExited"
  ELSE Classify(frame)

\* onWsMessage(message)
onWsMessage(c, frame, resizeThrows) ==
  LET control == JSONparse(frame.body)
      branch == Branch(c, frame)
  IN
  CASE branch = "wsClosed" -> UNCHANGED <<ws, pty, session>>
    [] branch = "ptyExited" ->
         /\ ws' = [ws EXCEPT ![c] = IF @.readyState = "OPEN" THEN WsClose(@, 1011) ELSE @]
         /\ UNCHANGED <<pty, session>>
    [] branch = "hello" ->
         /\ session' = [session EXCEPT ![c].helloVersion = HelloVersionOf(control.version)]
         /\ UNCHANGED <<ws, pty>>
    [] branch = "mismatch" ->
         /\ ws' = [ws EXCEPT ![c] = WsClose(SendIfOpen(@, "error:Protocol mismatch"), 1002)]
         /\ pty' = [pty EXCEPT ![c] = Kill(@, "mismatch")]
         /\ session' = [session EXCEPT ![c].helloVersion = HelloVersionOf(control.version),
                                       ![c].wsClosed = TRUE]
    [] branch = "resize" ->
         /\ pty' = [pty EXCEPT ![c].resized =
                      <<ClampDim(control.cols, DefaultCols), ClampDim(control.rows, DefaultRows)>>]
         /\ ws' = [ws EXCEPT ![c] = IF resizeThrows THEN ResizeFailed(@) ELSE @]
         /\ UNCHANGED session
    [] OTHER ->
         /\ pty' = [pty EXCEPT ![c].written = Append(@, frame.body)]
         /\ UNCHANGED <<ws, session>>

\* A frame arrives from the client.  ws emits "message" to the listener the
\* session attached; with no listener attached the frame is discarded.
WsMessage(c, frame, resizeThrows) ==
  /\ ws[c].readyState \in {"OPEN", "CLOSING"}
  /\ ~Terminated(ws[c]) /\ ~ws[c].errored
  /\ msgCount' = msgCount + 1
  /\ IF ws[c].onMessage
       THEN onWsMessage(c, frame, resizeThrows)
       ELSE UNCHANGED <<ws, pty, session>>
  /\ UNCHANGED <<opts, lifecycleVars, up, sessions, ptys, dataCount>>
  /\ UNCHANGED <<proxyVars, codeVars, spawnVars, traceVars>>

\* ws.on("close"): the socket is closed, by the client or at the end of a
\* closing handshake the server started.  The session's handler exists only
\* once SpawnDone has attached it.
WsClosed(c) ==
  /\ ws[c].readyState \in {"OPEN", "CLOSING"}
  /\ ws' = [ws EXCEPT ![c].readyState = "CLOSED"]
  /\ IF up[c].stage = "session"
       THEN /\ session' = [session EXCEPT ![c].wsClosed = TRUE]
            /\ pty' = [pty EXCEPT ![c] = IF ~session[c].ptyExited THEN Kill(@, "wsclose") ELSE @]
       ELSE UNCHANGED <<session, pty>>
  /\ UNCHANGED <<opts, lifecycleVars, up, sessions, ptys, msgCount, dataCount>>
  /\ UNCHANGED <<proxyVars, codeVars, spawnVars, traceVars>>

\* ws.on("error"): the handler logs and does nothing else.  The socket that
\* reports an error is on its way down: no frame is read from it any more and
\* its "close" event follows.
WsError(c) ==
  /\ up[c].stage = "session"
  /\ ws[c].readyState \in {"OPEN", "CLOSING"}
  /\ ~ws[c].errored
  /\ ws' = [ws EXCEPT ![c].errored = TRUE, ![c].readyState = "CLOSING"]
  /\ UNCHANGED <<opts, lifecycleVars, up, pty, session, sessions, ptys, msgCount, dataCount>>
  /\ UNCHANGED <<proxyVars, codeVars, spawnVars, traceVars>>

\* The close code of onExit with every exit taken as clean
ExitCloseCodeAlwaysNormal(exitCode) == 1000

\* const ok = exitCode === 0; ws.close(ok ? 1000 : 1011, ...)
ExitCloseCode(exitCode) == IF exitCode = 0 THEN 1000 ELSE 1011

\* ptyProcess.onExit({exitCode, signal})
PtyExit(c, exitCode) ==
  /\ pty[c].state = "running"
  /\ pty' = [pty EXCEPT ![c].state = "exited"]
  /\ session' = [session EXCEPT ![c].ptyExited = TRUE]
  /\ ptys' = ptys \ {c}
  /\ sessions' = sessions \ {c}
  /\ LET off == [ws[c] EXCEPT !.onMessage = FALSE]
         open == ~session[c].wsClosed /\ off.readyState = "OPEN"
         told == IF open /\ exitCode # 0 THEN SendIfOpen(off, "error:PTY exited") ELSE off
     IN ws' = [ws EXCEPT ![c] = IF open THEN WsClose(told, ExitCloseCode(exitCode))
                                        ELSE told]
  /\ UNCHANGED <<opts, lifecycleVars, up, msgCount, dataCount>>
  /\ UNCHANGED <<proxyVars, codeVars, spawnVars, traceVars>>

\* --------------------------------------------------------------- lifecycle
\* address(): "addr" is the bound {address, family, port}, "throws" the
\* Error("Server is not listening")
address == IF listenerBound THEN "addr" ELSE "throws"

\* if (listened) never taken
ListenReturnsEarlyNever == FALSE

\* if (listened) return address()
ListenReturnsEarly == listened

\* if (strictPort) with the port not looked at
NeedsProbeAnyPort(o) == o.strictPort

\* if (strictPort && port !== 0)
NeedsProbe(o) == o.strictPort /\ o.port # 0

\* How the probe of assertPortFree ends: "listening", or "error" with a code
ProbeOutcomes == {"free", "EADDRINUSE", "EACCES"}

\* The message of the error assertPortFree rejects with
ProbeError(outcome) ==
  IF outcome = "EADDRINUSE" THEN "Port N is already in use" ELSE outcome

\* listen() up to its first await
ListenCall ==
  /\ listenPc = "idle"
  /\ tracing => listenCalls < MaxListenCalls
  /\ listenCalls' = IF tracing THEN listenCalls + 1 ELSE listenCalls
  /\ IF ListenReturnsEarly
       THEN /\ listenResult' = address
            /\ listenError' = IF tracing /\ address = "throws"
                                THEN "Server is not listening" ELSE listenError
            /\ UNCHANGED listenPc
       ELSE /\ listenPc' = IF NeedsProbe(opts) THEN "probing" ELSE "binding"
            /\ UNCHANGED <<listenResult, listenError>>
  /\ UNCHANGED fired
  /\ UNCHANGED <<opts, listenerBound, listened, closing, closePromise, promises,
                 closeReturned, closeStage, closeSnapshot, wssState,
                 up, ws, pty, session, sessions, ptys, msgCount, dataCount>>
  /\ UNCHANGED <<proxyVars, codeVars, spawnVars, tracing>>

\* await assertPortFree(port) settles
ListenProbe(outcome) ==
  /\ listenPc = "probing"
  /\ IF outcome = "free"
       THEN listenPc' = "binding" /\ UNCHANGED <<listenResult, listenError>>
       ELSE /\ listenPc' = "idle"
            /\ listenResult' = "rejected"
            /\ listenError' = IF tracing THEN ProbeError(outcome) ELSE listenError
  /\ UNCHANGED <<listenCalls, fired>>
  /\ UNCHANGED <<opts, listenerBound, listened, closing, closePromise, promises,
                 closeReturned, closeStage, closeSnapshot, wssState,
                 up, ws, pty, session, sessions, ptys, msgCount, dataCount>>
  /\ UNCHANGED <<proxyVars, codeVars, spawnVars, tracing>>

\* httpServer.listen(port, host, cb) settles: the listening callback, or "error"
ListenBind(ok) ==
  /\ listenPc = "binding"
  /\ listenPc' = "idle"
  /\ IF ok THEN /\ listenerBound' = TRUE
                /\ listened' = TRUE
                /\ listenResult' = "addr"
                /\ UNCHANGED listenError
           ELSE /\ listenResult' = "rejected"
                /\ listenError' = IF tracing THEN "listen error" ELSE listenError
                /\ UNCHANGED <<listenerBound, listened>>
  /\ UNCHANGED <<opts, closing, closePromise, promises,
                 closeReturned, closeStage, closeSnapshot, wssState,
                 up, ws, pty, session, sessions, ptys, msgCount, dataCount>>
  /\ UNCHANGED <<proxyVars, codeVars, spawnVars, tracing, listenCalls, fired>>

\* Phase 1 with the message handler left attached
Phase1SocketKeepsHandler(w) ==
  WsTerminate(IF w.readyState \in {"OPEN", "CONNECTING"} THEN WsClose(w, 1001) ELSE w)

\* killAndCloseClients, phase 1, for one session's socket
Phase1Socket(w) ==
  LET off == [w EXCEPT !.onMessage = FALSE]
      closed == IF off.readyState \in {"OPEN", "CONNECTING"} THEN WsClose(off, 1001) ELSE off
  IN WsTerminate(closed)

\* A sweep that visits the sessions only when their socket was closed first
Phase2PtySkipsLateSessions(c) ==
  IF c \in closeSnapshot /\ c \in ptys THEN Kill(pty[c], "sweep:ptys") ELSE pty[c]

\* killAndCloseClients, phase 2, for one process: the loop over sessions, then
\* the loop over ptys
Phase2Pty(c) ==
  LET first == IF c \in sessions /\ ~session[c].ptyExited
                 THEN Kill(pty[c], "sweep:sessions") ELSE pty[c]
  IN IF c \in ptys THEN Kill(first, "sweep:ptys") ELSE first

\* close().  An async function: each call returns a promise object of its own,
\* settled by the value it returns.  The first call runs phase 1 before its
\* first await.
CloseCall ==
  /\ Len(closeReturned) < MaxCloseCalls
  /\ IF closePromise # 0
       THEN /\ promises' = promises + 1
            /\ closeReturned' = Append(closeReturned, promises + 1)
            /\ UNCHANGED <<closing, closePromise, closeStage, closeSnapshot, ws, session>>
       ELSE /\ closing' = TRUE
            /\ session' = [c \in Conns |->
                 IF c \in sessions THEN [session[c] EXCEPT !.wsClosed = TRUE] ELSE session[c]]
            /\ ws' = [c \in Conns |-> IF c \in sessions THEN Phase1Socket(ws[c]) ELSE ws[c]]
            /\ closeSnapshot' = sessions
            /\ closeStage' = "settle"
            /\ closePromise' = promises + 1
            /\ closeReturned' = Append(closeReturned, promises + 2)
            /\ promises' = promises + 2
  /\ UNCHANGED <<opts, listenerBound, listened, wssState, listenPc, listenResult,
                 up, pty, sessions, ptys, msgCount, dataCount>>
  /\ UNCHANGED <<proxyVars, codeVars, spawnVars, traceVars>>

\* The 100 ms settle timer fires: phase 2, then wss.close(cb) is issued
CloseSettled ==
  /\ closeStage = "settle"
  /\ pty' = [c \in Conns |-> Phase2Pty(c)]
  /\ sessions' = {}
  /\ ptys' = {}
  /\ wssState' = "CLOSING"
  /\ closeStage' = "wss"
  /\ UNCHANGED <<opts, listenerBound, listened, closing, closePromise, promises, closeReturned,
                 closeSnapshot, listenPc, listenResult,
                 up, ws, session, msgCount, dataCount>>
  /\ UNCHANGED <<proxyVars, codeVars, spawnVars, traceVars>>

\* What calls finish(): the close callback or the 2 s timer
FinishedBy == {"callback", "timer"}

\* finish() with no done flag: every call completes the stage again
FinishTakesEffectAlways(stage) == TRUE

\* if (done) return: finish() of a stage takes effect while the stage is the
\* one close() stands at
FinishTakesEffect(stage) == closeStage = stage

\* The callback and the timer of a stage exist once the stage has begun, and
\* each fires once.  A firing that takes no effect shows in the history only.
CanFire(stage, by) ==
  IF tracing
    THEN /\ <<stage, by>> \notin fired
         /\ closeStage \in (IF stage = "wss" THEN {"wss", "http", "resolved"}
                                              ELSE {"http", "resolved"})
    ELSE closeStage = stage

\* wss.close calls back, or its 2 s timer fires: finish().  The first of the two
\* resolves the stage's promise and httpServer.close(cb) is issued.
CloseWssFinished(by) ==
  /\ CanFire("wss", by)
  /\ fired' = IF tracing THEN fired \cup {<<"wss", by>>} ELSE fired
  /\ IF FinishTakesEffect("wss")
       THEN listenerBound' = FALSE /\ closeStage' = "http"
       ELSE UNCHANGED <<listenerBound, closeStage>>
  /\ UNCHANGED <<listenCalls, listenError>>
  /\ UNCHANGED <<opts, listened, closing, closePromise, promises, closeReturned,
                 closeSnapshot, wssState, listenPc, listenResult,
                 up, ws, pty, session, sessions, ptys, msgCount, dataCount>>
  /\ UNCHANGED <<proxyVars, codeVars, spawnVars, tracing>>

\* httpServer.close calls back, or its 2 s timer fires: finish().  The first of
\* the two resolves the stage's promise, and with it closePromise.
CloseHttpFinished(by) ==
  /\ CanFire("http", by)
  /\ fired' = IF tracing THEN fired \cup {<<"http", by>>} ELSE fired
  /\ closeStage' = IF FinishTakesEffect("http") THEN "resolved" ELSE closeStage
  /\ UNCHANGED <<listenCalls, listenError>>
  /\ UNCHANGED <<opts, listenerBound, listened, closing, closePromise, promises, closeReturned,
                 closeSnapshot, wssState, listenPc, listenResult,
                 up, ws, pty, session, sessions, ptys, msgCount, dataCount>>
  /\ UNCHANGED <<proxyVars, codeVars, spawnVars, tracing>>

\* ------------------------------------------------------------ proxy bridge
PendingCap == 100
MaxReason == 123

\* Number.isInteger(Number(value))
NumberIsInteger(value) == value.t # "fraction" /\ Number(value) # NaN

\* normalizeCloseCode with the reserved codes let through
normalizeCloseCodeKeepsReserved(code) ==
  IF ~NumberIsInteger(code) THEN 1000
  ELSE IF Number(code) < 1000 \/ Number(code) > 4999 THEN 1000
  ELSE Number(code)

\* normalizeCloseCode(code: unknown)
normalizeCloseCode(code) ==
  IF ~NumberIsInteger(code) THEN 1000
  ELSE IF Number(code) < 1000 \/ Number(code) > 4999 THEN 1000
  ELSE IF Number(code) \in {1005, 1006, 1015} THEN 1000
  ELSE Number(code)

\* The arguments normalizeCloseCode is called with
CloseCodeInputs ==
  {JsNumber(n) : n \in ((1000 - CodeSpan)..(1015 + CodeSpan))
                         \cup ((4999 - CodeSpan)..(4999 + CodeSpan)) \cup {-1, 0}}
    \cup {JsFraction(999), JsFraction(1000), JsString("1"), JsString("1001"),
          JsString("x"), JsUndefined}

\* A call of normalizeCloseCode
NormalizeCall(code) ==
  /\ normIn' = code
  /\ normOut' = normalizeCloseCode(code)
  /\ UNCHANGED <<serverVars, proxyVars, spawnVars, traceVars>>

\* The n-th frame of the browser and of the upstream, with its binary flag
BrowserFrame(n) == [id |-> n, isBinary |-> n % 2 = 0]
UpstreamFrame(n) == [id |-> n, isBinary |-> n % 2 = 1]

\* The codes and reason lengths an upstream close event carries
UpstreamCloseCodes == {1000, 1005, 1006, 4000}
ReasonLengths == {0, MaxReason + 1}

Min(a, b) == IF a <= b THEN a ELSE b

\* readyState === OPEN alone
OnlyOpen(state) == state = "OPEN"

\* readyState === WebSocket.OPEN || readyState === WebSocket.CONNECTING
OpenOrConnecting(state) == state \in {"OPEN", "CONNECTING"}

\* pending.unshift({ data, isBinary })
BufferedInFront(frames, frame) == <<frame>> \o frames

\* pending.push({ data, isBinary })
Buffered(frames, frame) == Append(frames, frame)

\* upstream.readyState !== WebSocket.OPEN
NotOpen(state) == state # "OPEN"

\* upstream.readyState === WebSocket.CONNECTING
Connecting(state) == state = "CONNECTING"

\* pending.length <= 100
CanBufferOneMore(len) == len <= PendingCap

\* pending.length < 100
CanBuffer(len) == len < PendingCap

\* The replay loop with no break after a send that throws
ReplayNoBreak(frames, failAt) ==
  IF failAt = 0 THEN frames
  ELSE SubSeq(frames, 1, failAt - 1) \o SubSeq(frames, failAt + 1, Len(frames))

\* for (const frame of pending.splice(0)) { send; on a throw: close, break }
\* The frames sent when the send of frame failAt throws (0: no send throws).
Replay(frames, failAt) ==
  IF failAt = 0 THEN frames ELSE SubSeq(frames, 1, failAt - 1)

\* readyState after socket.close(code, reason)
AfterClose(state) == IF state \in {"OPEN", "CONNECTING"} THEN "CLOSING" ELSE state

\* browserSocket.close(code, reason): a close frame goes out unless the socket
\* is already closing or closed
BrowserCloseCall(code, reasonLen) ==
  /\ bCloses' = IF OpenOrConnecting(bState)
                  THEN Append(bCloses, <<code, reasonLen>>) ELSE bCloses
  /\ bState' = AfterClose(bState)

\* browserSocket.on("message")
BrowserMessage(throws) ==
  /\ bState \in {"OPEN", "CLOSING"}
  /\ IF uState = "CONNECTING" THEN connectingRecv < MaxConnectingFrames
                               ELSE received - connectingRecv < MaxDirectFrames
  /\ received' = received + 1
  /\ LET frame == BrowserFrame(received + 1) IN
     IF uState = "OPEN" THEN
       /\ IF throws
            THEN /\ sendFailed' = TRUE
                 /\ BrowserCloseCall(1011, 27)
                 /\ UNCHANGED upSent
            ELSE /\ upSent' = Append(upSent, frame)
                 /\ UNCHANGED <<sendFailed, bCloses, bState>>
       /\ UNCHANGED <<pending, connectingRecv>>
     ELSE IF Connecting(uState) THEN
       /\ connectingRecv' = connectingRecv + 1
       /\ pending' = IF CanBuffer(Len(pending)) THEN Buffered(pending, frame) ELSE pending
       /\ UNCHANGED <<upSent, sendFailed, bCloses, bState>>
     ELSE UNCHANGED <<pending, connectingRecv, upSent, sendFailed, bCloses, bState>>
  /\ UNCHANGED <<uState, uRecv, bSent, uCloses, uTerminated, bTerminated, uCloseEvent>>
  /\ UNCHANGED <<serverVars, codeVars, spawnVars, traceVars>>

\* browserSocket.on("close")
BrowserClosed ==
  /\ bState \in {"OPEN", "CLOSING"}
  /\ bState' = "CLOSED"
  /\ IF OpenOrConnecting(uState)
       THEN uCloses' = Append(uCloses, 1000) /\ uState' = AfterClose(uState)
       ELSE UNCHANGED <<uCloses, uState>>
  /\ UNCHANGED <<pending, received, connectingRecv, upSent, uRecv, bSent, bCloses,
                 uTerminated, sendFailed, bTerminated, uCloseEvent>>
  /\ UNCHANGED <<serverVars, codeVars, spawnVars, traceVars>>

\* browserSocket.on("error") with upstream.close(1000, ...) for upstream.terminate()
BrowserErrorCloses ==
  /\ bState = "OPEN"
  /\ bState' = "CLOSING"
  /\ IF OpenOrConnecting(uState)
       THEN uCloses' = Append(uCloses, 1000) /\ uState' = "CLOSING"
       ELSE UNCHANGED <<uCloses, uState>>
  /\ UNCHANGED <<pending, received, connectingRecv, upSent, uRecv, bSent, bCloses,
                 uTerminated, sendFailed, bTerminated, uCloseEvent>>
  /\ UNCHANGED <<serverVars, codeVars, spawnVars, traceVars>>

\* browserSocket.on("error"): the socket is closing when it reports an error
BrowserError ==
  /\ bState = "OPEN"
  /\ bState' = "CLOSING"
  /\ IF OpenOrConnecting(uState)
       THEN uTerminated' = TRUE /\ uState' = "CLOSING"
       ELSE UNCHANGED <<uTerminated, uState>>
  /\ UNCHANGED <<pending, received, connectingRecv, upSent, uRecv, bSent, bCloses,
                 uCloses, sendFailed, bTerminated, uCloseEvent>>
  /\ UNCHANGED <<serverVars, codeVars, spawnVars, traceVars>>

\* upstream.on("open"): the replay of the buffered frames
UpstreamOpen(failAt) ==
  /\ uState = "CONNECTING"
  /\ failAt \in 0..Len(pending)
  /\ uState' = "OPEN"
  /\ pending' = <<>>
  /\ upSent' = upSent \o Replay(pending, failAt)
  /\ IF failAt # 0
       THEN sendFailed' = TRUE /\ BrowserCloseCall(1011, 29)
       ELSE UNCHANGED <<sendFailed, bCloses, bState>>
  /\ UNCHANGED <<received, connectingRecv, uRecv, bSent, uCloses, uTerminated,
                 bTerminated, uCloseEvent>>
  /\ UNCHANGED <<serverVars, codeVars, spawnVars, traceVars>>

\* upstream.on("message")
UpstreamMessage(throws) ==
  /\ uState = "OPEN"
  /\ uRecv < MaxUpstreamMsgs
  /\ uRecv' = uRecv + 1
  /\ IF bState # "OPEN" THEN UNCHANGED <<bSent, sendFailed, bCloses, bState>>
     ELSE IF throws
       THEN /\ sendFailed' = TRUE
            /\ BrowserCloseCall(1011, 27)
            /\ UNCHANGED bSent
       ELSE /\ bSent' = Append(bSent, UpstreamFrame(uRecv + 1))
            /\ UNCHANGED <<sendFailed, bCloses, bState>>
  /\ UNCHANGED <<uState, pending, received, connectingRecv, upSent, uCloses, uTerminated,
                 bTerminated, uCloseEvent>>
  /\ UNCHANGED <<serverVars, codeVars, spawnVars, traceVars>>

\* upstream.on("error"): the socket is closing when it reports an error
UpstreamError ==
  /\ uState \in {"CONNECTING", "OPEN"}
  /\ uState' = "CLOSING"
  /\ IF OpenOrConnecting(bState)
       THEN BrowserCloseCall(1011, 29)
       ELSE UNCHANGED <<bCloses, bState>>
  /\ UNCHANGED <<pending, received, connectingRecv, upSent, uRecv, bSent, uCloses,
                 uTerminated, sendFailed, bTerminated, uCloseEvent>>
  /\ UNCHANGED <<serverVars, codeVars, spawnVars, traceVars>>

\* upstream.on("close", (code, reason))
UpstreamClosed(code, reasonLen) ==
  /\ uState \in {"OPEN", "CLOSING"}
  /\ uState' = "CLOSED"
  /\ uCloseEvent' = <<code, reasonLen>>
  /\ IF OpenOrConnecting(bState)
       THEN BrowserCloseCall(normalizeCloseCode(JsNumber(code)), Min(reasonLen, MaxReason))
       ELSE UNCHANGED <<bCloses, bState>>
  /\ UNCHANGED <<pending, received, connectingRecv, upSent, uRecv, bSent, uCloses,
                 uTerminated, sendFailed, bTerminated>>
  /\ UNCHANGED <<serverVars, codeVars, spawnVars, traceVars>>

\* ------------------------------------------------ routing and pty options
\* s.startsWith(p)
StartsWith(s, p) == Len(s) >= Len(p) /\ SubSeq(s, 1, Len(p)) = p

\* basePath === "/" ? true : pathname === basePath || pathname.startsWith(basePath + "/")
matchesPath(pathname) ==
  IF basePath = RootPath THEN TRUE
  ELSE pathname = basePath \/ StartsWith(pathname, basePath \o <<"/">>)

\* s.slice(n)
Slice(s, n) == SubSeq(s, n + 1, Len(s))

\* s.replace(/^\/+/, "")
RECURSIVE StripLeadingSlashes(_)
StripLeadingSlashes(s) ==
  IF s # <<>> /\ Head(s) = "/" THEN StripLeadingSlashes(Tail(s)) ELSE s

\* The character a %XX escape stands for; "" for an escape decodeURIComponent
\* rejects (not two hex digits, or a byte that is no complete UTF-8 sequence)
PercentByte(h1, h2) ==
  IF <<h1, h2>> = <<"2", "0">> THEN " "
  ELSE IF <<h1, h2>> = <<"2", "F">> THEN "/"
  ELSE ""

\* A decoding that leaves every escape as it is
decodeNothing(s) == [ok |-> TRUE, s |-> s]

\* decodeURIComponent(s): ok = FALSE when it throws URIError
RECURSIVE decodeURIComponent(_)
decodeURIComponent(s) ==
  IF s = <<>> THEN [ok |-> TRUE, s |-> <<>>]
  ELSE IF Head(s) # "%" THEN
    LET r == decodeURIComponent(Tail(s))
    IN [ok |-> r.ok, s |-> IF r.ok THEN <<Head(s)>> \o r.s ELSE <<>>]
  ELSE IF Len(s) < 3 THEN [ok |-> FALSE, s |-> <<>>]
  ELSE IF PercentByte(s[2], s[3]) = "" THEN [ok |-> FALSE, s |-> <<>>]
  ELSE
    LET r == decodeURIComponent(Slice(s, 3))
    IN [ok |-> r.ok, s |-> IF r.ok THEN <<PercentByte(s[2], s[3])>> \o r.s ELSE <<>>]

\* const rest of handleUpgrade; "" where the code computes none
RestOf(pathname) ==
  IF basePath # RootPath
    THEN IF pathname # basePath
           THEN StripLeadingSlashes(Slice(pathname, Len(basePath)))
           ELSE <<>>
    ELSE StripLeadingSlashes(pathname)

\* terminalId = rest ? decodeURIComponent(rest) : undefined
TerminalIdOf(pathname) ==
  LET rest == RestOf(pathname)
      decoded == decodeURIComponent(rest)
  IN IF rest = <<>> THEN [ok |-> TRUE, id |-> NoId]
     ELSE IF decoded.ok THEN [ok |-> TRUE, id |-> IdOf(decoded.s)]
     ELSE [ok |-> FALSE, id |-> NoId]

\* handleUpgrade of a request that passes the origin check and authentication:
\* 404 for a pathname outside the base path, otherwise the terminalId is
\* derived and stored for the request and the connection is promoted.  When
\* decodeURIComponent throws, handleUpgrade ends there: nothing is promoted.
RouteUpgrade(c, pathname) ==
  /\ c = Len(conn) + 1
  /\ LET t == TerminalIdOf(pathname)
     IN conn' = Append(conn,
                  [stage |-> IF ~matchesPath(pathname) THEN "rejected"
                             ELSE IF t.ok THEN "connected" ELSE "threw",
                   terminalId |-> IF matchesPath(pathname) THEN t.id ELSE NoId,
                   hookArg |-> NoId,
                   spawned |-> NoSpawn])
  /\ UNCHANGED <<serverVars, proxyVars, codeVars, traceVars, basePath>>

\* extra.f ?? dflt
Field(extra, f, dflt) == IF f \in DOMAIN extra THEN extra[f] ELSE dflt

\* { ...env, ...(extra.env ?? {}) }
Spread(env, more) ==
  [k \in DOMAIN env \cup DOMAIN more |-> IF k \in DOMAIN more THEN more[k] ELSE env[k]]

\* Math.max(v, 10): NaN when v is NaN
MathMax10(v) == IF v = NaN THEN NaN ELSE Max(v, MinDim)

\* resolveDefaultShell(shell), imported from ./utils.js: its result is known
\* only as the result of that call
resolveDefaultShell(shell) == "resolveDefaultShell(" \o shell \o ")"

\* const defaultShell = resolveDefaultShell(opts.shell)
DefaultShell == resolveDefaultShell(OptsShell)

\* The arguments spawn() hands to pty.spawn for what the hook returned
SpawnOptions(extra) ==
  [shell |-> resolveDefaultShell(Field(extra, "shell", DefaultShell)),
   args |-> Field(extra, "shellArgs", <<>>),
   cwd |-> Field(extra, "cwd", DefaultCwd),
   env |-> Spread(ServerEnv, Field(extra, "env", NoFields)),
   cols |-> MathMax10(Field(extra, "cols", DefaultCols)),
   rows |-> MathMax10(Field(extra, "rows", DefaultRows))]

\* spawn() of a promoted connection: the hook is called with the terminalId
\* stored for the request, and pty.spawn with what spawn() makes of its result
CreatePty(c, extra) ==
  /\ c \in DOMAIN conn
  /\ conn[c].stage = "connected"
  /\ conn' = [conn EXCEPT ![c].stage = "spawned",
                          ![c].hookArg = conn[c].terminalId,
                          ![c].spawned = SpawnOptions(extra)]
  /\ UNCHANGED <<serverVars, proxyVars, codeVars, traceVars, basePath>>

\* ------------------------------------------------------------ specification
\* The frame of the lifecycle specification: a hello frame of another protocol
\* version, the one frame that tears a session down.
CoreFrames == {f \in TextFrames : f.body = "{type:hello,version:2}"}

\* ptyProcess.resize(cols, rows) returns or throws; it is called for a resize
\* frame only.
ResizeOutcomes(frame) == IF Classify(frame) = "resize" THEN BOOLEAN ELSE {FALSE}

\* Where no history is kept two failing probes are one and the same step, and
\* so are the callback and the timer of a stage of close().
UntracedProbeOutcomes == {"free", "EADDRINUSE"}
UntracedFinishedBy == {"callback"}

NextOf(conns, frames, maxMsgs, chunks, maxData) ==
  \/ \E c \in conns, pathOk \in BOOLEAN, origin \in Origins : HandleUpgrade(c, pathOk, origin)
  \/ \E c \in conns, outcome \in AuthOutcomes : AuthenticateDone(c, outcome)
  \/ \E c \in conns : SpawnDone(c)
  \/ \E c \in conns : SpawnFail(c)
  \/ \E c \in conns, chunk \in chunks : PtyData(c, chunk, maxData)
  \/ \E c \in conns, frame \in frames :
       \E resizeThrows \in ResizeOutcomes(frame) :
         msgCount < maxMsgs /\ WsMessage(c, frame, resizeThrows)
  \/ \E c \in conns : WsClosed(c)
  \/ \E c \in conns, exitCode \in {0, 1} : PtyExit(c, exitCode)
  \/ ListenCall
  \/ \E outcome \in UntracedProbeOutcomes : ListenProbe(outcome)
  \/ \E ok \in BOOLEAN : ListenBind(ok)
  \/ CloseCall
  \/ CloseSettled
  \/ \E by \in UntracedFinishedBy : CloseWssFinished(by)
  \/ \E by \in UntracedFinishedBy : CloseHttpFinished(by)

\* The server with every connection, under the frames of CoreFrames
Next == NextOf(Conns, CoreFrames, MaxMsgs, {"data"}, MaxData)
Spec == Init /\ [][Next]_vars

\* The server with one connection, under every frame of Frames
NextFrames == NextOf({1}, Frames, MaxFrameMsgs, {"data"}, MaxData)
SpecFrames == Init /\ [][NextFrames]_vars

\* One connection of a server: the frames are an input, a resize and a hello
\* of another version, every output chunk differs from the others, and the
\* socket may report an error.
SessionFrames == {f \in TextFrames :
                    f.body \in {"ls", "{type:resize,cols:1,rows:1}", "{type:hello,version:2}"}}

NextSession ==
  \/ NextOf({1}, SessionFrames, MaxSessionMsgs, {Chunk(dataCount + 1)}, MaxSessionData)
  \/ WsError(1)

SpecSession == Init /\ [][NextSession]_vars

\* The same, with the "close" event of a socket always delivered
SpecSessionLive == SpecSession /\ WF_vars(WsClosed(1))

\* listen(), address() and close() of a server no client connects to, with the
\* history of the calls kept
InitLifecycle == InitWith(LifecycleOptionSets, TRUE)

NextLifecycle ==
  \/ ListenCall
  \/ \E outcome \in ProbeOutcomes : ListenProbe(outcome)
  \/ \E ok \in BOOLEAN : ListenBind(ok)
  \/ CloseCall
  \/ CloseSettled
  \/ \E by \in FinishedBy : CloseWssFinished(by)
  \/ \E by \in FinishedBy : CloseHttpFinished(by)

SpecLifecycle == InitLifecycle /\ [][NextLifecycle]_vars

\* The same, with the timers of close() firing: the 100 ms settle timer and
\* the 2 s timer of each stage
SpecLifecycleLive ==
  /\ SpecLifecycle
  /\ WF_vars(CloseSettled)
  /\ WF_vars(CloseWssFinished("timer"))
  /\ WF_vars(CloseHttpFinished("timer"))

\* One connection of the proxy bridge, in front of a server with the default
\* options
InitProxy == Init /\ ~opts.strictPort

NextProxy ==
  \/ \E throws \in BOOLEAN : BrowserMessage(throws)
  \/ BrowserClosed
  \/ BrowserError
  \/ \E failAt \in {0, 1, Len(pending)} : UpstreamOpen(failAt)
  \/ \E throws \in BOOLEAN : UpstreamMessage(throws)
  \/ UpstreamError
  \/ \E code \in UpstreamCloseCodes, reasonLen \in ReasonLengths : UpstreamClosed(code, reasonLen)

SpecProxy == InitProxy /\ [][NextProxy]_vars

\* Calls of normalizeCloseCode
NextCodes == \E code \in CloseCodeInputs : NormalizeCall(code)

SpecCodes == Init /\ [][NextCodes]_vars

\* Routing and spawn options of the connections of one server
InitSpawn ==
  InitOf({[strictPort |-> FALSE, allowedOrigins |-> "none", port |-> DefaultPort]},
         FALSE, BasePaths)

NextSpawn ==
  \/ \E c \in SpawnConns, pathname \in Pathnames(basePath) : RouteUpgrade(c, pathname)
  \/ \E c \in SpawnConns, extra \in Extras : CreatePty(c, extra)

SpecSpawn == InitSpawn /\ [][NextSpawn]_vars

\* ------------------------------------------------------------------ claims
Has(seq, x) == \E i \in 1..Len(seq) : seq[i] = x
Count(seq, x) == Cardinality({i \in 1..Len(seq) : seq[i] = x})
IsError(frame) == frame \in {"error:Protocol mismatch", "error:Resize failed",
                             "error:PTY exited", "error:Failed to spawn PTY"}

\* The session of c is past the guards of onWsMessage: its handler is attached,
\* its socket is not marked closed and its process has not exited.
Handling(c) == ws[c].onMessage /\ ~session[c].wsClosed /\ ~session[c].ptyExited

SweepKilled(c) == Has(pty[c].kills, "sweep:sessions") \/ Has(pty[c].kills, "sweep:ptys")

\* The step properties below speak of the steps that deliver a frame, the only
\* steps that change msgCount.

\* C1: once a connection's socket has closed, kill has been requested on its
\* process unless the process has exited.  The close handler kills in the same
\* callback that marks the socket closed, so a closed socket with a running
\* process and no kill requested is a state nothing pending will repair.
C1_KillAfterSocketClose ==
  \A c \in Conns :
    (ws[c].readyState = "CLOSED" /\ pty[c].state = "running") => pty[c].kills # <<>>

\* C2: every close() call returns the promise object the first call returned.
C2_SamePromise ==
  \A i \in 1..Len(closeReturned) : closeReturned[i] = closeReturned[1]

\* C3: once the promise of close() has resolved, the live-session and
\* live-process sets are empty, every process spawned is killed or has exited,
\* and no session socket is left open.
C3_CloseLeavesNothing ==
  closeStage = "resolved" =>
    /\ sessions = {}
    /\ ptys = {}
    /\ \A c \in Conns : pty[c].state = "running" => pty[c].kills # <<>>
    /\ \A c \in Conns : up[c].stage = "session" => ws[c].readyState # "OPEN"

\* C4: address() throws "Server is not listening" whenever no listen() has
\* succeeded yet, and whenever close() has resolved.
C4_ThrowsUnlessListening ==
  (~listened \/ closeStage = "resolved") => address = "throws"

\* C5: the shutdown sweep kills only after the settle interval, and after every
\* session that was live when close() began has had its message handler
\* detached and close or terminate issued on its socket.
C5_SweepAfterDetach ==
  (\E c \in Conns : SweepKilled(c)) =>
    /\ closeStage \in {"wss", "http", "resolved"}
    /\ \A s \in closeSnapshot :
         /\ ~ws[s].onMessage
         /\ Has(ws[s].closes, 1001) \/ Terminated(ws[s])
         /\ ws[s].readyState # "OPEN"

C5_Witness ==
  \E c \in closeSnapshot : SweepKilled(c) /\ pty[c].state = "running" /\ Terminated(ws[c])

\* C6: a hello frame whose version is a number other than 1, or is missing,
\* makes the session send exactly one "Protocol mismatch" error frame, close
\* the socket and kill the process, and no frame is sent after it; a hello
\* frame of version 1 sends nothing and writes nothing to the process.
C6_MismatchOnce ==
  \A c \in Conns :
    LET n == Count(ws[c].sent, "error:Protocol mismatch") IN
    /\ n <= 1
    /\ n = 1 => /\ ws[c].sent[Len(ws[c].sent)] = "error:Protocol mismatch"
                /\ Has(ws[c].closes, 1002)
                /\ Has(pty[c].kills, "mismatch")
                /\ ws[c].readyState # "OPEN"

C6_HelloStep ==
  msgCount' # msgCount =>
    \A c \in Conns, f \in TextFrames, t \in BOOLEAN :
      (f.body \in HelloBodies /\ Handling(c) /\ WsMessage(c, f, t)) =>
        LET version == JSONparse(f.body).version IN
        IF version = JsNumber(JABTERM_PROTOCOL_VERSION)
          THEN /\ ws'[c].sent = ws[c].sent
               /\ ws'[c].closes = ws[c].closes
               /\ pty'[c] = pty[c]
          ELSE version.t \in {"number", "undefined"} =>
               /\ ws'[c].sent = Append(ws[c].sent, "error:Protocol mismatch")
               /\ ws'[c].closes = Append(ws[c].closes, 1002)
               /\ pty'[c].kills = Append(pty[c].kills, "mismatch")

C7_Floor ==
  \A c \in Conns : pty[c].resized # <<>> => pty[c].resized[1] >= 10 /\ pty[c].resized[2] >= 10

C7_ResizeStep ==
  msgCount' # msgCount =>
    \A c \in Conns, f \in TextFrames, t \in BOOLEAN :
      (f.body \in ResizeBodies /\ Handling(c) /\ WsMessage(c, f, t)) =>
        /\ pty'[c].resized # <<>>
        /\ f.body = "{type:resize,cols:1,rows:1}" => pty'[c].resized = <<10, 10>>

C7_ResizeClamped == []C7_Floor /\ [][C7_ResizeStep]_vars

C7_Witness == \E c \in Conns : pty[c].resized = <<10, 10>>

\* C8: a text frame handled by a session is consumed as a control frame, and
\* not written to the process, exactly when it starts with "{", parses as a
\* JSON object and has type hello or resize; every other text frame is written
\* to the process unchanged and no error frame is sent for it.
C8_ControlBodies == HelloBodies \cup ResizeBodies

C8_TextStep ==
  msgCount' # msgCount =>
    \A c \in Conns, f \in TextFrames, t \in BOOLEAN :
      (Handling(c) /\ WsMessage(c, f, t)) =>
        IF f.body \in C8_ControlBodies
          THEN pty'[c].written = pty[c].written
          ELSE /\ pty'[c].written = Append(pty[c].written, f.body)
               /\ ws'[c].sent = ws[c].sent
               /\ ws'[c].closes = ws[c].closes
               /\ pty'[c].resized = pty[c].resized

C9_BinaryStep ==
  msgCount' # msgCount =>
    \A c \in Conns, f \in BinaryFrames, t \in BOOLEAN :
      (Handling(c) /\ WsMessage(c, f, t)) =>
        /\ pty'[c].written = Append(pty[c].written, f.body)
        /\ pty'[c].resized = pty[c].resized
        /\ pty'[c].kills = pty[c].kills
        /\ session'[c] = session[c]
        /\ ws'[c] = ws[c]

C9_BinaryIsInput == [][C9_BinaryStep]_vars

\* C10: under an allowedOrigins list, a request whose Origin header is present
\* and not in the list is rejected with 403 and gets no socket and no process;
\* a request without an Origin header is not rejected by the origin check.
C10_OriginPolicy ==
  opts.allowedOrigins = "list" =>
    \A c \in Conns :
      /\ up[c].origin \notin AllowedOriginsList \cup {NoOrigin} =>
           /\ up[c].stage = "rejected" /\ up[c].reply = 403
           /\ ws[c].readyState = "NONE" /\ pty[c].state = "none"
      /\ up[c].reply = 403 => up[c].origin # NoOrigin

\* C11: an upgrade request that fails the path check, the origin check or the
\* authenticate hook (it returns false or throws) gets an HTTP error reply and
\* has its connection destroyed; it never gets a WebSocket, a session or a
\* process.
C11_RejectedStaysOut ==
  \A c \in Conns :
    up[c].reply \in {404, 403, 401} =>
      /\ up[c].stage = "rejected" /\ up[c].destroyed
      /\ ws[c].readyState = "NONE" /\ pty[c].state = "none"
      /\ c \notin sessions /\ c \notin ptys

C11_RejectStep ==
  up' # up =>
    \A c \in Conns :
      /\ \A pathOk \in BOOLEAN, origin \in Origins :
           (HandleUpgrade(c, pathOk, origin) /\ (~pathOk \/ ~checkOrigin(origin))) =>
             /\ up'[c].reply = (IF ~pathOk THEN 404 ELSE 403)
             /\ up'[c].destroyed
      /\ \A outcome \in {"false", "throws"} :
           AuthenticateDone(c, outcome) => up'[c].reply = 401 /\ up'[c].destroyed

C11_RejectedNeverPromoted == []C11_RejectedStaysOut /\ [][C11_RejectStep]_vars

C11_Witness ==
  \E c \in Conns : up[c].reply = 401 /\ up[c].destroyed /\ ws[c].readyState = "NONE"

\* C12: when a session's process exits while its socket is open, a ptyExit frame
\* is sent on the socket before the socket is closed.
C12_ExitStep ==
  pty' # pty =>
    \A c \in Conns, exitCode \in {0, 1} :
      (PtyExit(c, exitCode) /\ ~session[c].wsClosed /\ ws[c].readyState = "OPEN") =>
        \E i \in (Len(ws[c].sent) + 1)..Len(ws'[c].sent) : ws'[c].sent[i] = "ptyExit"

C12_ExitNotified == [][C12_ExitStep]_vars

\* C13: every close the server issues on an open socket is preceded on that
\* socket by a ptyExit frame or an error frame.
C13_CloseStep ==
  ws' # ws =>
    \A c \in Conns :
      (ws[c].readyState = "OPEN" /\ Len(ws'[c].closes) > Len(ws[c].closes)) =>
        \E i \in 1..Len(ws'[c].sent) : ws'[c].sent[i] = "ptyExit" \/ IsError(ws'[c].sent[i])

C13_CloseExplained == [][C13_CloseStep]_vars

\* C14: when a process exits while its session socket is open, the session is
\* marked exited, the input handler is detached and the socket is closed with
\* 1000 for exit code 0 and 1011 otherwise; an error frame is sent before the
\* close exactly when the exit code is not 0.
C14_ExitStep ==
  pty' # pty =>
    \A c \in Conns, exitCode \in {0, 1} :
      (PtyExit(c, exitCode) /\ ~session[c].wsClosed /\ ws[c].readyState = "OPEN") =>
        /\ session'[c].ptyExited
        /\ ~ws'[c].onMessage
        /\ ws'[c].closes = Append(ws[c].closes, IF exitCode = 0 THEN 1000 ELSE 1011)
        /\ ws'[c].sent = IF exitCode = 0 THEN ws[c].sent
                                          ELSE Append(ws[c].sent, "error:PTY exited")

C14_ExitClose == [][C14_ExitStep]_vars

C14_Witness ==
  \E c \in Conns :
    /\ pty[c].state = "exited"
    /\ ws[c].closes = <<1011>>
    /\ ws[c].sent # <<>> /\ ws[c].sent[Len(ws[c].sent)] = "error:PTY exited"

\* C15: on a proxy connection nothing is sent to the upstream while it is
\* connecting; the frames sent to the upstream are frames of the client, each
\* at most once, in the order received and with the binary flag they came with;
\* and when the upstream opens and no send throws, the frames sent are exactly
\* the frames received while connecting, up to the first 100, in that order.
C15_Received(n) == [i \in 1..n |-> BrowserFrame(i)]

C15_NoneBeforeOpen == uState = "CONNECTING" => upSent = <<>>

C15_OnceInOrder ==
  \A i \in 1..Len(upSent) :
    /\ upSent[i].id \in 1..received
    /\ upSent[i].isBinary = BrowserFrame(upSent[i].id).isBinary
    /\ i > 1 => upSent[i - 1].id < upSent[i].id

C15_ReplayStep ==
  uState' # uState =>
    ((uState = "CONNECTING" /\ uState' = "OPEN" /\ sendFailed' = sendFailed) =>
       /\ received = connectingRecv
       /\ upSent' = C15_Received(Min(connectingRecv, PendingCap)))

C15_ReplayInOrder ==
  [](C15_NoneBeforeOpen /\ C15_OnceInOrder) /\ [][C15_ReplayStep]_vars

C15_Witness ==
  /\ uState = "OPEN" /\ ~sendFailed
  /\ connectingRecv = 3 /\ received = 4
  /\ Len(upSent) = 4 /\ upSent[2].id = 2 /\ upSent[2].isBinary /\ ~upSent[3].isBinary

\* C16: the pending buffer never holds more than 100 frames; a frame arriving
\* while the upstream is connecting and the buffer holds 100 frames leaves the
\* buffer, the client socket and the frames sent to the client as they were;
\* and a frame dropped this way is never sent to the upstream.
C16_Bounded == Len(pending) <= 100

C16_DroppedNeverSent ==
  \A i \in 1..Len(upSent) : ~(upSent[i].id > 100 /\ upSent[i].id <= connectingRecv)

C16_DropStep ==
  received' # received =>
    ((uState = "CONNECTING" /\ Len(pending) = 100) =>
       /\ pending' = pending
       /\ bState' = bState /\ bCloses' = bCloses /\ bSent' = bSent /\ ~bTerminated'
       /\ uState' = uState /\ upSent' = upSent)

C16_BufferCapped ==
  [](C16_Bounded /\ C16_DroppedNeverSent) /\ [][C16_DropStep]_vars

C16_Witness ==
  /\ connectingRecv > 100 /\ uState = "OPEN"
  /\ Len(upSent) = 101 /\ upSent[100].id = 100 /\ upSent[101].id > connectingRecv

\* C17: when the client socket closes while the upstream is open or connecting,
\* a close is issued on the upstream; when the upstream closes while the client
\* socket is open or connecting, a close is issued on the client socket with
\* normalizeCloseCode of the upstream's code and with the upstream's reason cut
\* to at most 123 characters.
C17_CloseStep ==
  (bState' # bState \/ uState' # uState) =>
    /\ (bState # "CLOSED" /\ bState' = "CLOSED" /\ uState \in {"OPEN", "CONNECTING"}) =>
         /\ Len(uCloses') = Len(uCloses) + 1
         /\ uState' = "CLOSING"
    /\ (uState # "CLOSED" /\ uState' = "CLOSED" /\ bState \in {"OPEN", "CONNECTING"}) =>
         /\ bCloses' = Append(bCloses,
                              <<normalizeCloseCode(JsNumber(uCloseEvent'[1])),
                                IF uCloseEvent'[2] <= 123 THEN uCloseEvent'[2] ELSE 123>>)
         /\ bState' = "CLOSING"

C17_CloseMirrored == [][C17_CloseStep]_vars

C17_Witness ==
  /\ uCloseEvent = <<1006, 124>>
  /\ bCloses = << <<1000, 123>> >>
  /\ bState = "CLOSED"

\* C18 as stated: an error on either socket terminates the other socket, with
\* no close handshake, whenever the other socket is open or connecting.
C18_IsBrowserError == bState = "OPEN" /\ bState' = "CLOSING" /\ bCloses' = bCloses

C18_IsUpstreamError ==
  /\ uState \in {"CONNECTING", "OPEN"} /\ uState' = "CLOSING"
  /\ uCloses' = uCloses /\ uTerminated' = uTerminated

C18_TerminateStep ==
  (bState' # bState \/ uState' # uState) =>
    /\ (C18_IsBrowserError /\ uState \in {"OPEN", "CONNECTING"}) =>
         uTerminated' /\ uCloses' = uCloses
    /\ (C18_IsUpstreamError /\ bState \in {"OPEN", "CONNECTING"}) =>
         bTerminated' /\ bCloses' = bCloses

C18_ErrorTerminatesOther == [][C18_TerminateStep]_vars

\* C18 amended: an error on the client socket terminates the upstream, with no
\* close handshake, whenever the upstream is open or connecting; an error on the
\* upstream issues a close with code 1011 on the client socket, and does not
\* terminate it, whenever the client socket is open or connecting.
C18_ErrorStep ==
  (bState' # bState \/ uState' # uState) =>
    /\ (C18_IsBrowserError /\ uState \in {"OPEN", "CONNECTING"}) =>
         uTerminated' /\ uCloses' = uCloses /\ uState' = "CLOSING"
    /\ (C18_IsUpstreamError /\ bState \in {"OPEN", "CONNECTING"}) =>
         /\ ~bTerminated'
         /\ Len(bCloses') = Len(bCloses) + 1
         /\ bCloses'[Len(bCloses')][1] = 1011
         /\ bState' = "CLOSING"

C18_ErrorMirrored == [][C18_ErrorStep]_vars

C18_Witness ==
  /\ uState = "CLOSING" /\ ~uTerminated /\ uCloses = <<>>
  /\ ~sendFailed /\ ~bTerminated
  /\ Len(bCloses) = 1 /\ bCloses[1][1] = 1011

\* C19: once a send has thrown, during the replay or during a forward in either
\* direction, the client socket is closing or closed and the close issued on it
\* carries 1011; and when a send throws during the replay, the frames sent to
\* the upstream are a proper prefix of the buffer and the buffer is empty.
C19_FailureCloses ==
  sendFailed =>
    /\ bState \in {"CLOSING", "CLOSED"}
    /\ bCloses # <<>> /\ bCloses[1][1] = 1011

C19_FailStep ==
  sendFailed' # sendFailed =>
    /\ bCloses' # <<>> /\ bCloses'[Len(bCloses')][1] = 1011
    /\ uState = "CONNECTING" =>
         /\ pending' = <<>>
         /\ Len(upSent') < Len(pending)
         /\ upSent' = SubSeq(pending, 1, Len(upSent'))

C19_SendFailureCloses == []C19_FailureCloses /\ [][C19_FailStep]_vars

C19_Witness ==
  /\ sendFailed /\ uState = "OPEN" /\ pending = <<>>
  /\ connectingRecv = 3 /\ received = 3 /\ uRecv = 0
  /\ Len(upSent) = 2
  /\ bState = "CLOSING" /\ bCloses = << <<1011, 29>> >>

\* C20 as stated: normalizeCloseCode returns 1000 for every input that is not
\* an integer, is below 1000, is above 4999 or is 1005, 1006 or 1015, and the
\* input otherwise.
C20_Reserved == {1005, 1006, 1015}

C20_AsStated(input) ==
  IF input.t = "number" /\ input.n \in 1000..4999 /\ input.n \notin C20_Reserved
    THEN input.n ELSE 1000

C20_TableAsStated == normOut # 0 => normOut = C20_AsStated(normIn)

\* C20 amended: normalizeCloseCode returns 1000 for every input whose
\* conversion to a number is not an integer, is below 1000, is above 4999 or is
\* 1005, 1006 or 1015, and that number otherwise; its result is always in
\* 1000..4999 and never 1005, 1006 or 1015, and applying it to its result gives
\* the result again.
C20_OfNumber(input) ==
  IF input.t = "fraction" \/ Number(input) = NaN THEN 1000
  ELSE IF Number(input) \in 1000..4999 /\ Number(input) \notin C20_Reserved
    THEN Number(input) ELSE 1000

C20_Table ==
  normOut # 0 =>
    /\ normOut = C20_OfNumber(normIn)
    /\ normOut \in 1000..4999 /\ normOut \notin C20_Reserved
    /\ normalizeCloseCode(JsNumber(normOut)) = normOut

C20_Witness == normIn = JsString("1001") /\ normOut = 1001

\* C21 as stated: after a listen() call has succeeded, every further listen()
\* call returns the bound address and binds nothing.
C21_FurtherStep ==
  listenCalls' # listenCalls =>
    (listened =>
       /\ listenResult' = "addr"
       /\ listenPc' = "idle" /\ listenerBound' = listenerBound)

C21_FurtherListenReturnsAddress == [][C21_FurtherStep]_vars

\* C21 amended: after a listen() call has succeeded, no further listen() call
\* probes or binds, and every further listen() call made while the listener
\* is bound returns the bound address.
C21_NoListenInFlight == listened => listenPc = "idle"

C21_IdempotentStep ==
  listenCalls' # listenCalls =>
    (listened =>
       /\ listenPc' = "idle" /\ listenerBound' = listenerBound /\ listened'
       /\ listenerBound => listenResult' = "addr")

C21_ListenIdempotent == []C21_NoListenInFlight /\ [][C21_IdempotentStep]_vars

C21_Witness ==
  /\ listenCalls = 2 /\ listenError = ""
  /\ listened /\ listenerBound /\ listenPc = "idle" /\ listenResult = "addr"

\* C22: with strictPort set and a non-zero port, a bind is started only by a
\* probe that found the port free, and a probe that finds the port in use
\* rejects listen() with "Port N is already in use", starts no bind and leaves
\* the server not listening; with port 0, or without strictPort, no probe is
\* made and listen() goes straight to the bind.
C22_ProbeOnlyWhenStrict == listenPc = "probing" => (opts.strictPort /\ opts.port # 0)

C22_ProbeStep ==
  listenPc' # listenPc =>
    /\ listenPc' = "binding" =>
         listenPc = (IF opts.strictPort /\ opts.port # 0 THEN "probing" ELSE "idle")
    /\ ListenProbe("EADDRINUSE") =>
         /\ listenResult' = "rejected" /\ listenError' = "Port N is already in use"
         /\ listenPc' = "idle"
         /\ ~listened' /\ ~listenerBound'

C22_StrictPort == []C22_ProbeOnlyWhenStrict /\ [][C22_ProbeStep]_vars

C22_Witness ==
  /\ opts.strictPort /\ opts.port # 0
  /\ listenPc = "idle" /\ listenResult = "rejected"
  /\ listenError = "Port N is already in use"
  /\ ~listened /\ ~listenerBound

\* C24: once close() has been called its promise resolves, the callbacks of
\* wss.close and httpServer.close being free never to come; and of the callback
\* and the timer of a stage, the one that fires while close() stands at that
\* stage moves it to the next stage, and the other changes nothing.
C24_Next(stage) == IF stage = "wss" THEN "http" ELSE "resolved"

C24_FinishStep ==
  fired' # fired =>
    \A e \in fired' \ fired :
      IF closeStage = e[1]
        THEN closeStage' = C24_Next(e[1])
        ELSE closeStage' = closeStage /\ listenerBound' = listenerBound

C24_Resolved ==
  closeStage = "resolved" =>
    /\ \E by \in FinishedBy : <<"wss", by>> \in fired
    /\ \E by \in FinishedBy : <<"http", by>> \in fired

C24_CloseResolves ==
  /\ []C24_Resolved
  /\ [][C24_FinishStep]_vars
  /\ (closePromise # 0) ~> (closeStage = "resolved")

C24_Witness ==
  /\ closeStage = "resolved"
  /\ fired = {"wss", "http"} \X FinishedBy

\* C23: when the onCreatePty hook or the spawn fails for a connection, the
\* server sends the error frame "Failed to spawn PTY" if the socket is open,
\* closes the socket with 1011, and registers nothing: no session, no process
\* in the live sets, and no process running for that connection.
C23_FailStep ==
  up[1].stage = "spawning" /\ SpawnFail(1) =>
    /\ ws'[1].sent = IF ws[1].readyState = "OPEN"
                       THEN Append(ws[1].sent, "error:Failed to spawn PTY")
                       ELSE ws[1].sent
    /\ ws'[1].closes = Append(ws[1].closes, 1011)
    /\ ws'[1].readyState # "OPEN"
    /\ sessions' = sessions /\ ptys' = ptys /\ pty' = pty

C23_NothingRegistered ==
  up[1].stage = "spawnFailed" =>
    /\ 1 \notin sessions /\ 1 \notin ptys
    /\ pty[1].state = "none"
    /\ Has(ws[1].closes, 1011)

C23_SpawnFailure == []C23_NothingRegistered /\ [][C23_FailStep]_vars

C23_Witness ==
  /\ up[1].stage = "spawnFailed"
  /\ ws[1].sent = <<"error:Failed to spawn PTY">>
  /\ ws[1].closes = <<1011>>
  /\ sessions = {} /\ ptys = {}

\* C25 as stated: for every accepted upgrade the identifier handed to the hook
\* is the URL-decoded path suffix after the base path (none when it is empty),
\* and the shell, args, cwd, env, cols and rows the hook returns are the ones
\* the process is spawned with, each falling back to the server-wide default
\* when absent; one connection's overrides never affect another's process.
C25_Id(suffix) ==
  CASE suffix \in {<<>>, <<"/">>} -> NoId
    [] suffix \in {<<"/", "a">>, <<"/", "/", "a">>} -> IdOf(<<"a">>)
    [] suffix = <<"/", "a", "%", "2", "0", "b">> -> IdOf(<<"a", " ", "b">>)
    [] suffix \in {<<"/", "a", "/", "b">>, <<"/", "a", "%", "2", "F", "b">>} ->
         IdOf(<<"a", "/", "b">>)
    [] suffix = <<"x">> -> IdOf(<<"x">>)
    [] OTHER -> NoId

C25_Or(extra, f, dflt) == IF f \in DOMAIN extra THEN extra[f] ELSE dflt

C25_RouteStep ==
  conn' # conn =>
    \A c \in SpawnConns, suffix \in Suffixes :
      RouteUpgrade(c, basePath \o suffix) /\ conn'[c].stage = "connected" =>
        /\ conn'[c].terminalId = C25_Id(suffix)
        /\ conn'[c].hookArg = NoId /\ conn'[c].spawned = NoSpawn
        /\ \A d \in DOMAIN conn : conn'[d] = conn[d]

C25_HookGetsId(c) ==
  /\ conn'[c].stage = "spawned"
  /\ conn'[c].hookArg = conn[c].terminalId
  /\ conn'[c].terminalId = conn[c].terminalId

C25_OthersUntouched(c) == \A d \in DOMAIN conn \ {c} : conn'[d] = conn[d]

C25_PlainFields(c, extra) ==
  /\ conn'[c].spawned.shell =
       resolveDefaultShell(C25_Or(extra, "shell", resolveDefaultShell(OptsShell)))
  /\ conn'[c].spawned.args = C25_Or(extra, "shellArgs", <<>>)
  /\ conn'[c].spawned.cwd = C25_Or(extra, "cwd", DefaultCwd)

C25_SpawnStepAsStated ==
  conn' # conn =>
    \A c \in SpawnConns, extra \in Extras :
      CreatePty(c, extra) =>
        /\ C25_HookGetsId(c)
        /\ C25_OthersUntouched(c)
        /\ C25_PlainFields(c, extra)
        /\ conn'[c].spawned.env = C25_Or(extra, "env", ServerEnv)
        /\ conn'[c].spawned.cols = C25_Or(extra, "cols", DefaultCols)
        /\ conn'[c].spawned.rows = C25_Or(extra, "rows", DefaultRows)

C25_Dim(extra, f, dflt) ==
  IF f \notin DOMAIN extra THEN dflt
  ELSE IF extra[f] = NaN THEN NaN
  ELSE IF extra[f] < 10 THEN 10
  ELSE extra[f]

C25_Env(extra) ==
  IF "env" \notin DOMAIN extra THEN ServerEnv
  ELSE [k \in {"TERM", "OPT"} \cup DOMAIN extra.env |->
          IF k \in DOMAIN extra.env THEN extra.env[k]
          ELSE IF k = "TERM" THEN "xterm-256color" ELSE "server"]

C25_SpawnStep ==
  conn' # conn =>
    \A c \in SpawnConns, extra \in Extras :
      CreatePty(c, extra) =>
        /\ C25_HookGetsId(c)
        /\ C25_OthersUntouched(c)
        /\ C25_PlainFields(c, extra)
        /\ conn'[c].spawned.env = C25_Env(extra)
        /\ conn'[c].spawned.cols = C25_Dim(extra, "cols", 80)
        /\ conn'[c].spawned.rows = C25_Dim(extra, "rows", 24)

C26_Chunks(frames) == SelectSeq(frames, LAMBDA f : ~IsError(f))

C26_FlagStep ==
  /\ session[1].ptyExited => pty'[1].written = pty[1].written
  /\ session[1].wsClosed => C26_Chunks(ws'[1].sent) = C26_Chunks(ws[1].sent)

C26_NothingAfterFlags == [][C26_FlagStep]_vars

C26_Witness ==
  /\ session[1].wsClosed /\ session[1].ptyExited
  /\ dataCount = 2 /\ msgCount = 2
  /\ ws[1].sent = <<Chunk(1), "error:Protocol mismatch">>
  /\ pty[1].written = <<>>

\* C27: the output frames sent on the socket of a session are, in order, the
\* chunks its process emitted while the socket was open: each chunk is one
\* frame holding the chunk itself, none is reordered, duplicated or merged,
\* and once a chunk has been dropped no later chunk is sent.
C27_Output == SelectSeq(ws[1].sent, LAMBDA f : ~IsError(f))

C27_InOrder == \E k \in 0..dataCount : C27_Output = [i \in 1..k |-> Chunk(i)]

C27_DataStep ==
  dataCount' # dataCount =>
    ws'[1].sent = IF ws[1].readyState = "OPEN"
                    THEN Append(ws[1].sent, Chunk(dataCount + 1))
                    ELSE ws[1].sent

C27_OutputInOrder == []C27_InOrder /\ [][C27_DataStep]_vars

C27_Witness ==
  /\ dataCount = 2
  /\ ws[1].sent = <<"data:1", "data:2">>
  /\ ws[1].readyState = "OPEN"

\* C28: a session leaves the live-session set only when both of its teardown
\* flags, processExited and socketClosed, are true: none is discarded while
\* its socket is still open or its process still running.
C28_RemovalStep ==
  1 \in sessions /\ 1 \notin sessions' =>
    /\ session'[1].ptyExited /\ session'[1].wsClosed
    /\ ws'[1].readyState # "OPEN"
    /\ pty'[1].state # "running"

C28_RemovedWhenTornDown == [][C28_RemovalStep]_vars

\* C29: when applying a resize to the process throws, the server sends one
\* error frame "Resize failed", does not close the socket, does not kill the
\* process, does not write the frame to the process as input, and the session
\* keeps handling later frames.
C29_ResizeThrowStep ==
  Handling(1) /\ msgCount' # msgCount =>
    \A frame \in SessionFrames :
      Classify(frame) = "resize" /\ WsMessage(1, frame, TRUE) =>
        /\ ws'[1].sent = Append(ws[1].sent, "error:Resize failed")
        /\ ws'[1].closes = ws[1].closes
        /\ ws'[1].readyState = ws[1].readyState
        /\ pty'[1].kills = pty[1].kills
        /\ pty'[1].written = pty[1].written
        /\ pty'[1].state = pty[1].state
        /\ Handling(1)'

C29_ResizeFailureKeepsSession == [][C29_ResizeThrowStep]_vars

C29_Witness ==
  /\ ws[1].sent = <<"error:Resize failed", "error:Resize failed">>
  /\ ws[1].readyState = "OPEN" /\ ws[1].closes = <<>>
  /\ pty[1].state = "running" /\ pty[1].kills = <<>> /\ pty[1].written = <<>>
  /\ msgCount = 2

\* C30: a socket error on a session ends like a socket close: the session
\* comes to its socket-closed state, and kill is issued on its process unless
\* the process has exited.
C30_TornDown ==
  /\ session[1].wsClosed
  /\ session[1].ptyExited \/ pty[1].kills # <<>>

C30_ErrorTearsDown == ws[1].errored ~> C30_TornDown

C30_Witness ==
  /\ ws[1].errored /\ ws[1].readyState = "CLOSED"
  /\ session[1].wsClosed /\ ~session[1].ptyExited
  /\ pty[1].kills = <<"wsclose">>

\* C31: for each session the server requests termination of its process at
\* most once and issues close on its socket at most once, whatever the
\* interleaving of client close, process exit, protocol mismatch and shutdown.
C31_CloseCalls(c) == SelectSeq(ws[c].closes, LAMBDA code : code # 0)

C31_TeardownOnce ==
  \A c \in Conns :
    /\ Len(pty[c].kills) <= 1
    /\ Len(C31_CloseCalls(c)) <= 1

\* C32: whenever close() kills a process, the socket of that process's session
\* has already had close or terminate issued on it and its message handler
\* detached; this for every session in the live set at that moment, those
\* registered after phase 1 included.
C32_KillStep ==
  closeStage = "settle" /\ closeStage' = "wss" =>
    \A c \in sessions \cup ptys :
      pty'[c].kills # pty[c].kills =>
        /\ ws[c].closes # <<>>
        /\ ~ws[c].onMessage
        /\ ws[c].readyState # "OPEN"

C32_KilledAfterSocketClosed == [][C32_KillStep]_vars

\* C33: the kill phase of close() issues kill on every process that is running
\* when the phase starts, and on no process that has exited: an exit that took
\* its entries out of the live sets makes the sweep skip nothing else.
C33_SweepStep ==
  closeStage = "settle" /\ closeStage' = "wss" =>
    \A c \in Conns :
      /\ pty[c].state = "running" => Len(pty'[c].kills) > Len(pty[c].kills)
      /\ pty[c].state # "running" => pty'[c].kills = pty[c].kills
      /\ pty'[c].state = pty[c].state

C34_NoPayloadBeforeMismatch ==
  \A c \in Conns :
    Has(ws[c].sent, "error:Protocol mismatch") =>
      /\ ws[c].sent = <<"error:Protocol mismatch">>
      /\ pty[c].written = <<>>

\* C35: in every reachable state the live-process set is exactly the set of
\* the processes of the live sessions; a process enters and leaves the set in
\* the same step as its session, and every entry is a spawned process whose
\* exit has not been handled.
C35_SetsAgree ==
  /\ ptys = sessions
  /\ \A c \in ptys : pty[c].state = "running" /\ ~session[c].ptyExited

C35_SetsStep ==
  \A c \in Conns : (c \in ptys') = (c \in sessions')

C35_ProcessesOfSessions == []C35_SetsAgree /\ [][C35_SetsStep]_vars

C35_Witness ==
  /\ ptys = {1}
  /\ sessions = {1}
  /\ session[1].wsClosed
  /\ pty[1].kills = <<"wsclose">>

\* C36: every upgrade request ends either in an HTTP error reply or in promotion
\* to a WebSocket connection, whatever its path, a suffix that is not valid
\* percent-encoding included: no request is left unanswered by an error that
\* escapes handleUpgrade.
C36_EveryUpgradeAnswered ==
  \A c \in DOMAIN conn : conn[c].stage \in {"rejected", "connected"}

\* C37: on a proxy connection the frames sent to the upstream are a subsequence
\* of the frames received from the client, in the order received: a frame
\* received after the upstream opened never precedes a buffered frame, no frame
\* is sent twice or is both sent and still buffered, and once the upstream is
\* closing or closed a frame received is neither buffered nor sent.
C37_Ascending(frames) ==
  \A i \in 1..Len(frames) :
    /\ frames[i] = BrowserFrame(frames[i].id)
    /\ frames[i].id \in 1..received
    /\ i > 1 => frames[i - 1].id < frames[i].id

C37_Subsequence ==
  /\ C37_Ascending(upSent \o pending)
  /\ \A i \in 1..Len(pending) : pending[i].id <= connectingRecv

C37_ClosingStep ==
  uState \in {"CLOSING", "CLOSED"} => pending' = pending /\ upSent' = upSent

C37_ForwardedInOrder == []C37_Subsequence /\ [][C37_ClosingStep]_vars

C37_Witness ==
  /\ uState = "CLOSING"
  /\ connectingRecv = 2
  /\ received = 4
  /\ upSent = <<BrowserFrame(1), BrowserFrame(2), BrowserFrame(3)>>
  /\ pending = <<>>

\* C38: once close() has been called the server never listens again: a listen()
\* call made or finished after it leaves the listener unbound, so the listener
\* is never bound while the close promise is settled.
C38_NeverListensAfterClose ==
  closeStage = "resolved" => ~listenerBound

\* C39: every frame a client sends on an accepted connection while the socket
\* is open and the process has not exited is handled as a control frame or
\* written to the process, in arrival order, also when it arrives while the
\* onCreatePty hook or the spawn is still pending: an input frame is appended
\* to what was written to the process and a hello frame is recorded.
C39_Accepted(c) ==
  /\ up[c].stage \in {"spawning", "session"}
  /\ ws[c].readyState = "OPEN"
  /\ pty[c].state # "exited"

C39_ArrivalStep ==
  msgCount' # msgCount =>
    \A c \in Conns, f \in Frames :
      (C39_Accepted(c) /\ WsMessage(c, f, FALSE)) =>
        /\ f.body \notin HelloBodies \cup ResizeBodies =>
             pty'[c].written = Append(pty[c].written, f.body)
        /\ f.body \in {"{type:hello,version:1}", "{type:hello,version:2}"} =>
             session'[c].helloVersion # NaN

C39_NoFrameLost == [][C39_ArrivalStep]_vars

\* C40: the checks of an upgrade request run in the order path, origin,
\* authenticate and stop at the first failure: a request outside the path gets
\* 404 whatever its origin, the authenticate hook is started once, from the
\* fresh request only, and only when the path matched and the origin passed,
\* and the spawn with its onCreatePty hook is started only by an authenticate
\* hook that returned true.
C40_OriginPasses(origin) ==
  \/ opts.allowedOrigins = "none"
  \/ origin \in {NoOrigin, ""}
  \/ origin \in AllowedOriginsList

C40_OrderStep ==
  up' # up =>
    \A c \in Conns :
      /\ up'[c].stage = "idle" => up[c].stage = "idle"
      /\ \A origin \in Origins :
           /\ HandleUpgrade(c, FALSE, origin) =>
                up'[c].stage = "rejected" /\ up'[c].reply = 404
           /\ HandleUpgrade(c, TRUE, origin) =>
                IF C40_OriginPasses(origin)
                  THEN up'[c].stage = "authenticating" /\ up'[c].reply = 0
                  ELSE up'[c].stage = "rejected" /\ up'[c].reply = 403
      /\ (up'[c].stage = "authenticating" /\ up[c].stage # "authenticating") =>
           /\ up[c].stage = "idle"
           /\ C40_OriginPasses(up'[c].origin)
           /\ HandleUpgrade(c, TRUE, up'[c].origin)
      /\ (up'[c].stage = "spawning" /\ up[c].stage # "spawning") =>
           /\ up[c].stage = "authenticating"
           /\ AuthenticateDone(c, "true")

C40_ChecksInOrder == [][C40_OrderStep]_vars

C40_Witness ==
  /\ opts.allowedOrigins = "list"
  /\ up[1].stage = "spawning"
  /\ ws[1].readyState = "OPEN"
  /\ pty[1].state = "none"

====
